---- MODULE Spec2Model ----
(***************************************************************************)
(* A model of the safecast crate (src/src/lib.rs): the conversion traits   *)
(* AsType, CastFrom/CastInto, TryCastFrom/TryCastInto and Match, the       *)
(* blanket implementations that derive one from another, the as_type!      *)
(* macro, and the types of the crate's test module (Foo, Bar, Baz and the  *)
(* enum FooBar) that instantiate them.                                     *)
(*                                                                         *)
(* Every operation of the crate is a function call that runs to its end;   *)
(* an action is one such call by a caller: it draws the target type and    *)
(* the argument, and records the argument as passed (arg), what is left    *)
(* of the caller's binding (s: the value again after a borrow, Moved after *)
(* a call by value), the calls the body made on the implementer's methods  *)
(* and on the error constructor, in order (calls), and what came back      *)
(* (result).  A panic ends the run (pc = "aborted").                       *)
(***************************************************************************)
EXTENDS Integers, Sequences, FiniteSets, TLC

VARIABLES
    user,       \* a TryCastFrom<Bar> implementation written outside the crate
    container,  \* the caller's FooBar binding
    origin,     \* how the value in container was built
    op,         \* the last call: its name and its target type
    arg,        \* the argument of the last call, as passed
    on_err,     \* the error constructor passed to the last call
    s,          \* the caller's source binding after the last call
    calls,      \* the calls the last call's body made, in order
    result,     \* what the last call returned
    pc          \* "idle", "returned" after a call, "aborted" after a panic

vars == <<user, container, origin, op, arg, on_err, s, calls, result, pc>>

---------------------------------------------------------------------------
(* Bounds of the model. *)

\* Foo.a ranges over -MaxVal..MaxVal and the two ends of i32;
\* Bar.b over 0..MaxVal and the top of u32.
MaxVal == 1

---------------------------------------------------------------------------
(* Integers.  A u32 is kept as two 16-bit limbs, so that its whole range   *)
(* is representable and `as u32` wraps as it does in Rust.                 *)

Limb == 65536
I32_MAX == 2147483647
I32_MIN == (-I32_MAX) - 1

\* `x as u32` for an i32 x: the two's complement bits of x, read unsigned.
as_u32(x) == [hi |-> (x \div Limb) % Limb, lo |-> x % Limb]

IsU32(b) == b.hi \in 0..(Limb - 1) /\ b.lo \in 0..(Limb - 1)
U32_ZERO == as_u32(0)
U32_MAX == [hi |-> Limb - 1, lo |-> Limb - 1]

I32Vals == (-MaxVal..MaxVal) \cup {I32_MIN, I32_MAX}
U32Vals == {as_u32(n) : n \in 0..MaxVal} \cup {U32_MAX}

---------------------------------------------------------------------------
(* The types of the test module, and Qux: the target type of a             *)
(* TryCastFrom<Bar> implementation written by a user of the crate.         *)

Foo(a) == [type |-> "Foo", a |-> a]
Bar(b) == [type |-> "Bar", b |-> b]
Baz(bar) == [type |-> "Baz", bar |-> bar]
FooBar(variant, payload) == [type |-> "FooBar", variant |-> variant, payload |-> payload]
Qux(bar) == [type |-> "Qux", bar |-> bar]

FooVals == {Foo(a) : a \in I32Vals}
BarVals == {Bar(b) : b \in U32Vals}
BazVals == {Baz(bar) : bar \in BarVals}

Values(type) ==
    CASE type = "Foo" -> FooVals
      [] type = "Bar" -> BarVals
      [] type = "Baz" -> BazVals

\* The variants of enum FooBar; each carries the type of its own name.
Variants == {"Foo", "Bar", "Baz"}
FooBarVals == {FooBar(p.type, p) : p \in FooVals \cup BarVals \cup BazVals}

\* Whether v is a well-formed value of the named type (any u32, any i32).
IsValueOf(type, v) ==
    /\ v.type = type
    /\ CASE type = "Foo" -> v.a \in I32_MIN..I32_MAX
         [] type = "Bar" -> IsU32(v.b)
         [] type = "Baz" -> v.bar.type = "Bar" /\ IsU32(v.bar.b)
         [] type = "FooBar" -> v.variant \in Variants /\ v.payload.type = v.variant
         [] OTHER -> TRUE

NoValue == [type |-> "-"]
Moved == [type |-> "moved"]

\* Option, Result, and the other shapes a call returns.
None == [kind |-> "None"]
Some(v) == [kind |-> "Some", val |-> v]
Ok(v) == [kind |-> "Ok", val |-> v]
Err(e) == [kind |-> "Err", val |-> e]
Bool(b) == [kind |-> "Bool", val |-> b]
Val(v) == [kind |-> "Val", val |-> v]
Panic == [kind |-> "Panic"]
Unit == [kind |-> "Unit"]
is_some(o) == o.kind = "Some"

\* The error constructors a caller passes: the tests' |_| CastError, and one
\* that keeps what it was shown.
OnErrs == {"CastError", "Rejected"}
apply_on_err(f, view) ==
    IF f = "CastError" THEN [type |-> "CastError"]
    ELSE [type |-> "Rejected", seen |-> view]

\* One entry of calls.
Call(fn, a) == [fn |-> fn, arg |-> a]

---------------------------------------------------------------------------
(* The implementations a build holds.  An edge <<F, T>> reads "T from F". *)

\* as_type!(FooBar, Bar, Bar) binds variant Bar; the macro takes any variant
\* of the enum, and the model binds each to the type it carries.
Bindings == Variants
PayloadType(variant) == variant
BoundVariant(type) == CHOOSE V \in Bindings : PayloadType(V) = type

\* impl From<$t> for $c, one per binding.
FromEdges == {<<PayloadType(V), "FooBar">> : V \in Bindings}
\* impl CastFrom<Foo> for Bar, and the blanket impl over From.
CastFromEdges == {<<"Foo", "Bar">>} \cup FromEdges
\* impl TryCastFrom<Bar> for Baz.
PrimitiveTryEdges == {<<"Bar", "Baz">>}

\* No implementation outside the crate.
NoUser ==
    [defined |-> FALSE, can |-> [v \in BarVals |-> FALSE],
     opt |-> [v \in BarVals |-> FALSE], overrides |-> FALSE,
     try_ok |-> [v \in BarVals |-> FALSE]]

\* impl TryCastFrom<Bar> for Qux, written by a user: can_cast_from and
\* opt_cast_from are any two functions of the value (opt[v]: whether
\* opt_cast_from(v) is Some), and try_cast_from is the provided method.
UserImpls ==
    {[defined |-> TRUE, can |-> c, opt |-> o, overrides |-> FALSE,
      try_ok |-> [v \in BarVals |-> FALSE]] :
        c \in [BarVals -> BOOLEAN], o \in [BarVals -> BOOLEAN]}

\* The same, with a try_cast_from of the user's own in place of the provided
\* one: Ok where try_ok holds, Err(on_err(&value)) elsewhere.
OwnTryImpls ==
    {[defined |-> TRUE, can |-> c, opt |-> o, overrides |-> TRUE, try_ok |-> t] :
        c \in [BarVals -> BOOLEAN], o \in [BarVals -> BOOLEAN],
        t \in [BarVals -> BOOLEAN]}

\* "When can_cast_from returns true, calling opt_cast_from must return Some".
HonoursContract(u) == \A v \in BarVals : u.can[v] => u.opt[v]

UserEdges == IF user.defined THEN {<<"Bar", "Qux">>} ELSE {}
TryEdges == CastFromEdges \cup PrimitiveTryEdges \cup UserEdges

---------------------------------------------------------------------------
(* as_type!: the From and AsType implementations it generates. *)

\* fn from(t: $t) -> Self { Self::$variant(t) }
From_from(variant, t) == FooBar(variant, t)

\* Mutant of as_type: the match arm for the bound variant is lost.
as_type_never(variant, self) == None

\* fn as_type(&self) -> Option<&$t>
as_type(variant, self) ==
    IF self.variant = variant THEN Some(self.payload) ELSE None

\* fn as_type_mut(&mut self) -> Option<&mut $t>
as_type_mut(variant, self) ==
    IF self.variant = variant THEN Some(self.payload) ELSE None

\* Mutant of into_type: the payload is handed out whatever the variant.
into_type_any(variant, self) == Some(self.payload)

\* fn into_type(self) -> Option<$t>
into_type(variant, self) ==
    IF self.variant = variant THEN Some(self.payload) ELSE None

\* T::from(f), resolved on the type of f.
from(T, f) == From_from(BoundVariant(f.type), f)

---------------------------------------------------------------------------
(* CastFrom and CastInto. *)

\* Mutant of Bar_cast_from: the sign of foo.a is kept instead of wrapped.
Bar_cast_from_nowrap(foo) == Bar([hi |-> foo.a \div Limb, lo |-> foo.a % Limb])

\* impl CastFrom<Foo> for Bar: Bar { b: foo.a as u32 }
Bar_cast_from(foo) == Bar(as_u32(foo.a))

\* impl<F, T: From<F>> CastFrom<F> for T: T::from(f)
From_cast_from(T, f) == from(T, f)

\* T::cast_from(f), resolved on the pair of types.
cast_from(T, f) ==
    IF T = "Bar" /\ f.type = "Foo" THEN Bar_cast_from(f) ELSE From_cast_from(T, f)

\* impl<T, F: CastFrom<T>> CastInto<F> for T: F::cast_from(self)
cast_into(T, self) == cast_from(T, self)

---------------------------------------------------------------------------
(* TryCastFrom and TryCastInto. *)

\* Mutant of Baz_can_cast_from: the test is inverted.
Baz_can_cast_from_nonzero(bar) == bar.b # U32_ZERO

\* impl TryCastFrom<Bar> for Baz
Baz_can_cast_from(bar) == bar.b = U32_ZERO
Baz_opt_cast_from(bar) == IF bar.b = U32_ZERO THEN Some(Baz(bar)) ELSE None

\* Mutant of CastFrom_opt_cast_from: the cast is dropped.
CastFrom_opt_cast_from_none(T, f) == None

\* impl<F, T: CastFrom<F>> TryCastFrom<F> for T
CastFrom_can_cast_from(T, f) == TRUE
CastFrom_opt_cast_from(T, f) == Some(cast_from(T, f))

\* The user's implementation for Qux.
Qux_can_cast_from(bar) == user.can[bar]
Qux_opt_cast_from(bar) == IF user.opt[bar] THEN Some(Qux(bar)) ELSE None

\* T::can_cast_from(value) and T::opt_cast_from(value), resolved on the pair.
can_cast_from(T, value) ==
    CASE T = "Baz" -> Baz_can_cast_from(value)
      [] T = "Qux" -> Qux_can_cast_from(value)
      [] OTHER -> CastFrom_can_cast_from(T, value)

opt_cast_from(T, value) ==
    CASE T = "Baz" -> Baz_opt_cast_from(value)
      [] T = "Qux" -> Qux_opt_cast_from(value)
      [] OTHER -> CastFrom_opt_cast_from(T, value)

\* Mutant of provided_try_cast_from: the outcome follows opt_cast_from alone,
\* the eligibility test is never made.
provided_try_cast_from_by_opt(T, value, f) ==
    LET o == opt_cast_from(T, value)
    IN  IF is_some(o)
        THEN [out |-> Ok(o.val), calls |-> <<Call("opt_cast_from", value)>>]
        ELSE [out |-> Err(apply_on_err(f, value)),
              calls |-> <<Call("opt_cast_from", value), Call("on_err", value)>>]

\* Mutant of provided_try_cast_from: the conversion is made (of a copy) before
\* the eligibility test.
provided_try_cast_from_eager(T, value, f) ==
    LET o == opt_cast_from(T, value)
    IN  IF can_cast_from(T, value)
        THEN [out |-> IF is_some(o) THEN Ok(o.val) ELSE Panic,
              calls |-> <<Call("opt_cast_from", value), Call("can_cast_from", value)>>]
        ELSE [out |-> Err(apply_on_err(f, value)),
              calls |-> <<Call("opt_cast_from", value), Call("can_cast_from", value),
                          Call("on_err", value)>>]

\* The provided method of TryCastFrom:
\*   if Self::can_cast_from(&value) { Ok(Self::opt_cast_from(value).unwrap()) }
\*   else { Err(on_err(&value)) }
\* out is what it returns, calls the calls it made, in order.
provided_try_cast_from(T, value, f) ==
    IF can_cast_from(T, value)
    THEN LET o == opt_cast_from(T, value)
         IN  [out |-> IF is_some(o) THEN Ok(o.val) ELSE Panic,
              calls |-> <<Call("can_cast_from", value), Call("opt_cast_from", value)>>]
    ELSE [out |-> Err(apply_on_err(f, value)),
          calls |-> <<Call("can_cast_from", value), Call("on_err", value)>>]

\* A try_cast_from the user wrote for Qux in place of the provided one.
Qux_try_cast_from(value, f) ==
    IF user.try_ok[value]
    THEN [out |-> Ok(Qux(value)), calls |-> <<>>]
    ELSE [out |-> Err(apply_on_err(f, value)), calls |-> <<Call("on_err", value)>>]

\* T::try_cast_from(value, on_err), resolved on the pair.
try_cast_from(T, value, f) ==
    IF T = "Qux" /\ user.overrides
    THEN Qux_try_cast_from(value, f)
    ELSE provided_try_cast_from(T, value, f)

\* Mutant of can_cast_into: always eligible.
can_cast_into_true(T, self) == TRUE

\* impl<F, T: TryCastFrom<F>> TryCastInto<T> for F
can_cast_into(T, self) == can_cast_from(T, self)
opt_cast_into(T, self) == opt_cast_from(T, self)

\* Mutant of try_cast_into: an absent conversion becomes an error, not a panic.
try_cast_into_lenient(T, self, f) ==
    LET o == opt_cast_into(T, self)
    IN  IF can_cast_into(T, self) /\ is_some(o)
        THEN [out |-> Ok(o.val),
              calls |-> <<Call("can_cast_from", self), Call("opt_cast_from", self)>>]
        ELSE [out |-> Err(apply_on_err(f, self)),
              calls |-> <<Call("can_cast_from", self), Call("on_err", self)>>]

\* The provided method of TryCastInto, which the blanket impl keeps:
\*   if self.can_cast_into() { Ok(self.opt_cast_into().unwrap()) }
\*   else { Err(on_err(&self)) }
try_cast_into(T, self, f) ==
    IF can_cast_into(T, self)
    THEN LET o == opt_cast_into(T, self)
         IN  [out |-> IF is_some(o) THEN Ok(o.val) ELSE Panic,
              calls |-> <<Call("can_cast_from", self), Call("opt_cast_from", self)>>]
    ELSE [out |-> Err(apply_on_err(f, self)),
          calls |-> <<Call("can_cast_from", self), Call("on_err", self)>>]

\* Mutant of matches: every target type matches.
matches_always(T, self) == TRUE

\* Match::matches::<T>(&self): T::can_cast_from(self)
matches(T, self) == can_cast_from(T, self)

---------------------------------------------------------------------------
(* The calls a caller makes. *)

Op(name, T) == [name |-> name, T |-> T]

\* What a call leaves alone besides the caller's FooBar binding.
Returns(name, T, a, f, left, made, out) ==
    /\ op' = Op(name, T)
    /\ arg' = a
    /\ on_err' = f
    /\ s' = left
    /\ calls' = made
    /\ result' = out
    /\ pc' = IF out = Panic THEN "aborted" ELSE "returned"
    /\ user' = user

\* let c = FooBar::Foo(..) | FooBar::Bar(..) | FooBar::Baz(..)
Construct ==
    /\ pc = "idle"
    /\ \E c \in FooBarVals :
        /\ container' = c
        /\ origin' = [by |-> "variant", t |-> c.payload]
        /\ Returns("construct", "FooBar", c.payload, "-", Moved, <<>>, Val(c))

\* let c = FooBar::from(t)
From ==
    /\ pc = "idle"
    /\ \E V \in Bindings : \E t \in Values(PayloadType(V)) :
        /\ container' = from("FooBar", t)
        /\ origin' = [by |-> "from", t |-> t]
        /\ Returns("from", "FooBar", t, "-", Moved, <<>>, Val(from("FooBar", t)))

\* c.as_type(): Option<&T>
AsType ==
    /\ pc = "idle"
    /\ container.type = "FooBar"
    /\ \E V \in Bindings :
        /\ UNCHANGED <<container, origin>>
        /\ Returns("as_type", PayloadType(V), container, "-", container, <<>>,
                   as_type(V, container))

\* c.as_type_mut(): Option<&mut T>
AsTypeMut ==
    /\ pc = "idle"
    /\ container.type = "FooBar"
    /\ \E V \in Bindings :
        /\ UNCHANGED <<container, origin>>
        /\ Returns("as_type_mut", PayloadType(V), container, "-", container, <<>>,
                   as_type_mut(V, container))

\* c.into_type(): Option<T>; c is consumed.
IntoType ==
    /\ pc = "idle"
    /\ container.type = "FooBar"
    /\ \E V \in Bindings :
        /\ container' = Moved
        /\ UNCHANGED origin
        /\ Returns("into_type", PayloadType(V), container, "-", Moved, <<>>,
                   into_type(V, container))

\* T::cast_from(f)
CastFrom ==
    /\ pc = "idle"
    /\ \E e \in CastFromEdges : \E f \in Values(e[1]) :
        /\ UNCHANGED <<container, origin>>
        /\ Returns("cast_from", e[2], f, "-", Moved, <<>>, Val(cast_from(e[2], f)))

\* f.cast_into()
CastInto ==
    /\ pc = "idle"
    /\ \E e \in CastFromEdges : \E f \in Values(e[1]) :
        /\ UNCHANGED <<container, origin>>
        /\ Returns("cast_into", e[2], f, "-", Moved, <<>>, Val(cast_into(e[2], f)))

\* T::can_cast_from(&value)
CanCastFrom ==
    /\ pc = "idle"
    /\ \E e \in TryEdges : \E v \in Values(e[1]) :
        /\ UNCHANGED <<container, origin>>
        /\ Returns("can_cast_from", e[2], v, "-", v, <<>>, Bool(can_cast_from(e[2], v)))

\* T::opt_cast_from(value)
OptCastFrom ==
    /\ pc = "idle"
    /\ \E e \in TryEdges : \E v \in Values(e[1]) :
        /\ UNCHANGED <<container, origin>>
        /\ Returns("opt_cast_from", e[2], v, "-", Moved, <<>>, opt_cast_from(e[2], v))

\* T::try_cast_from(value, on_err)
TryCastFrom ==
    /\ pc = "idle"
    /\ \E e \in TryEdges, f \in OnErrs : \E v \in Values(e[1]) :
        LET r == try_cast_from(e[2], v, f)
        IN  /\ UNCHANGED <<container, origin>>
            /\ Returns("try_cast_from", e[2], v, f, Moved, r.calls, r.out)

\* value.can_cast_into()
CanCastInto ==
    /\ pc = "idle"
    /\ \E e \in TryEdges : \E v \in Values(e[1]) :
        /\ UNCHANGED <<container, origin>>
        /\ Returns("can_cast_into", e[2], v, "-", v, <<>>, Bool(can_cast_into(e[2], v)))

\* value.opt_cast_into()
OptCastInto ==
    /\ pc = "idle"
    /\ \E e \in TryEdges : \E v \in Values(e[1]) :
        /\ UNCHANGED <<container, origin>>
        /\ Returns("opt_cast_into", e[2], v, "-", Moved, <<>>, opt_cast_into(e[2], v))

\* value.try_cast_into(on_err)
TryCastInto ==
    /\ pc = "idle"
    /\ \E e \in TryEdges, f \in OnErrs : \E v \in Values(e[1]) :
        LET r == try_cast_into(e[2], v, f)
        IN  /\ UNCHANGED <<container, origin>>
            /\ Returns("try_cast_into", e[2], v, f, Moved, r.calls, r.out)

\* value.matches::<T>()
Matches ==
    /\ pc = "idle"
    /\ \E e \in TryEdges : \E v \in Values(e[1]) :
        /\ UNCHANGED <<container, origin>>
        /\ Returns("matches", e[2], v, "-", v, <<>>, Bool(matches(e[2], v)))

\* The caller drops what the call returned and goes on to its next call.
Continue ==
    /\ pc = "returned"
    /\ op' = Op("-", "-")
    /\ arg' = NoValue
    /\ on_err' = "-"
    /\ s' = NoValue
    /\ calls' = <<>>
    /\ result' = Unit
    /\ pc' = "idle"
    /\ UNCHANGED <<user, container, origin>>

---------------------------------------------------------------------------
(* Specifications. *)

Start ==
    /\ container = NoValue
    /\ origin = [by |-> "-", t |-> NoValue]
    /\ op = Op("-", "-")
    /\ arg = NoValue
    /\ on_err = "-"
    /\ s = NoValue
    /\ calls = <<>>
    /\ result = Unit
    /\ pc = "idle"

NextVariant == Construct \/ From \/ AsType \/ AsTypeMut \/ IntoType
NextCast == CastFrom \/ CastInto
NextFallible ==
    \/ CanCastFrom \/ OptCastFrom \/ TryCastFrom
    \/ CanCastInto \/ OptCastInto \/ TryCastInto
    \/ Matches
NextUser == NextFallible \/ Continue

\* The crate with its test module: no implementation but its own.
Init == user = NoUser /\ Start
Next == NextVariant \/ NextCast \/ NextFallible \/ Continue
Spec == Init /\ [][Next]_vars

\* The fallible casts of a build that adds a user's TryCastFrom<Bar> for Qux
\* which honours the documented contract of the trait.
InitContract == user \in {u \in UserImpls : HonoursContract(u)} /\ Start
SpecContract == InitContract /\ [][NextUser]_vars

\* The same with any can_cast_from and opt_cast_from whatever.
InitAnyImpl == user \in UserImpls /\ Start
SpecAnyImpl == InitAnyImpl /\ [][NextUser]_vars

\* The same with a try_cast_from of the user's own.
InitOwnTry == user \in OwnTryImpls /\ Start
SpecOwnTry == InitOwnTry /\ [][NextUser]_vars

---------------------------------------------------------------------------
(* Properties. *)

IsTry == op.name \in {"try_cast_from", "try_cast_into"}
CountCalls(fn) == Cardinality({i \in 1..Len(calls) : calls[i].fn = fn})

\* C1: T::try_cast_from(s, on_err) returns Ok exactly when T::can_cast_from(&s)
\* is true, and otherwise returns Err carrying what on_err makes of a view of
\* that same s.
C1_TryCastFromFollowsCan ==
    op.name = "try_cast_from" =>
        /\ result.kind \in {"Ok", "Err"}
        /\ (result.kind = "Ok") <=> can_cast_from(op.T, arg)
        /\ ~can_cast_from(op.T, arg) => result = Err(apply_on_err(on_err, arg))

\* A user's implementation rejected a value and the error carries the view of it.
C1_Witness ==
    /\ op.name = "try_cast_from"
    /\ op.T = "Qux"
    /\ on_err = "Rejected"
    /\ result = Err([type |-> "Rejected", seen |-> arg])

\* C2: on a primitive fallible edge (Baz from Bar), can_cast_from(&s) is true
\* if and only if opt_cast_from(s) is Some.
C2_CanIffOpt ==
    <<arg.type, op.T>> \in PrimitiveTryEdges =>
        /\ op.name = "can_cast_from" =>
              (result.val <=> is_some(opt_cast_from(op.T, arg)))
        /\ op.name = "opt_cast_from" =>
              (is_some(result) <=> can_cast_from(op.T, arg))

\* Baz::opt_cast_from(Bar { b: 1 }) is None.
C2_Witness ==
    /\ op = Op("opt_cast_from", "Baz")
    /\ arg = Bar([hi |-> 0, lo |-> 1])
    /\ result = None

\* C3: on a pair that has only an unconditional edge, the derived
\* can_cast_from(&s) is always true and the derived opt_cast_from(s) is always
\* Some, of the value cast_from(s).
C3_DerivedAlwaysEligible ==
    <<arg.type, op.T>> \in CastFromEdges \ PrimitiveTryEdges =>
        /\ op.name = "can_cast_from" => result = Bool(TRUE)
        /\ op.name = "opt_cast_from" => result = Some(cast_from(op.T, arg))

\* Bar::opt_cast_from(Foo { a: -1 }) is Some(Bar { b: u32::MAX }).
C3_Witness ==
    /\ op = Op("opt_cast_from", "Bar")
    /\ arg = Foo(-1)
    /\ result = Some(Bar(U32_MAX))

\* C4: on an unconditional edge s.cast_into() is T::cast_from(s), and both
\* produce a value of T for every s.
C4_CastIntoIsCastFrom ==
    /\ op.name = "cast_into" => result = Val(cast_from(op.T, arg))
    /\ op.name \in {"cast_from", "cast_into"} =>
          result.kind = "Val" /\ IsValueOf(op.T, result.val)
    /\ op = Op("cast_from", "Bar") /\ arg = Foo(1) =>
          result = Val(Bar([hi |-> 0, lo |-> 1]))

\* Foo { a: i32::MIN }.cast_into() is Bar { b: 0x8000_0000 }.
C4_Witness ==
    /\ op = Op("cast_into", "Bar")
    /\ arg = Foo(I32_MIN)
    /\ result = Val(Bar([hi |-> 32768, lo |-> 0]))

\* C5: on a container bound by as_type!(C, V, T), as_type, as_type_mut and
\* into_type each return Some exactly when the container's tag is V, and None
\* for every other tag.
C5_AccessorsAgree ==
    op.name \in {"as_type", "as_type_mut", "into_type"} =>
        /\ is_some(result) <=> (arg.variant = BoundVariant(op.T))
        /\ result \in {None, Some(arg.payload)}
        /\ \A V \in Bindings :
              /\ is_some(as_type(V, arg)) <=> is_some(as_type_mut(V, arg))
              /\ is_some(as_type(V, arg)) <=> is_some(into_type(V, arg))

\* into_type::<Bar>() consumed a container holding a Baz and returned None.
C5_Witness ==
    /\ op = Op("into_type", "Bar")
    /\ arg.variant = "Baz"
    /\ result = None
    /\ container = Moved

\* C6: the container built by C::from(t) (or C::cast_from(t)) has tag V,
\* as_type on it returns a reference equal to t, and into_type returns t.
C6_WrapThenRead ==
    /\ op.name = "from" =>
          /\ container.variant = BoundVariant(arg.type)
          /\ container = cast_from("FooBar", arg)
          /\ as_type(container.variant, container) = Some(arg)
          /\ into_type(container.variant, container) = Some(arg)
    /\ /\ origin.by = "from"
       /\ op.name \in {"as_type", "into_type"}
       /\ op.T = origin.t.type
       => result = Some(origin.t)

\* FooBar::from(Bar { b: 0 }).as_type() is Some(&Bar { b: 0 }).
C6_Witness ==
    /\ origin.by = "from"
    /\ op = Op("as_type", "Bar")
    /\ result = Some(Bar([hi |-> 0, lo |-> 0]))

\* C7: s.matches::<T>() is T::can_cast_from(&s), and s is left as it was.
C7_MatchesIsCan ==
    op.name = "matches" =>
        /\ result = Bool(can_cast_from(op.T, arg))
        /\ s = arg
        /\ op.T = "Baz" => (result.val <=> arg = Bar([hi |-> 0, lo |-> 0]))

\* Bar { b: 1 }.matches::<Baz>() is false.
C7_Witness ==
    /\ op = Op("matches", "Baz")
    /\ arg = Bar([hi |-> 0, lo |-> 1])
    /\ result = Bool(FALSE)
    /\ s = arg

\* C8, as claimed: the derived into operations give what T's from operations
\* give, try_cast_into included when T's implementer supplies a try_cast_from
\* of its own.
C8_IntoIsFrom ==
    /\ op.name = "can_cast_into" => result = Bool(can_cast_from(op.T, arg))
    /\ op.name = "opt_cast_into" => result = opt_cast_from(op.T, arg)
    /\ op.name = "try_cast_into" => result = try_cast_from(op.T, arg, on_err).out

\* C8, amended: can_cast_into and opt_cast_into give what T's can_cast_from
\* and opt_cast_from give; try_cast_into gives what the provided try_cast_from
\* gives on them, which is T::try_cast_from wherever T keeps the provided one.
C8_IntoIsProvidedFrom ==
    /\ op.name = "can_cast_into" => result = Bool(can_cast_from(op.T, arg))
    /\ op.name = "opt_cast_into" => result = opt_cast_from(op.T, arg)
    /\ op.name = "try_cast_into" =>
          /\ result = provided_try_cast_from(op.T, arg, on_err).out
          /\ ~(op.T = "Qux" /\ user.overrides) =>
                result = try_cast_from(op.T, arg, on_err).out

\* try_cast_into returned Ok where the user's own try_cast_from returns Err.
C8_Witness ==
    /\ op = Op("try_cast_into", "Qux")
    /\ result = Ok(Qux(arg))
    /\ try_cast_from(op.T, arg, on_err).out.kind = "Err"

\* C9: try_cast_from and try_cast_into panic, without calling on_err and
\* without returning, when can_cast_from(&s) is true and opt_cast_from(s) is
\* None; in every other case they return.
C9_PanicOnlyOnViolation ==
    IsTry =>
        /\ (result = Panic) <=>
              (can_cast_from(op.T, arg) /\ ~is_some(opt_cast_from(op.T, arg)))
        /\ result = Panic => pc = "aborted" /\ CountCalls("on_err") = 0
        /\ result # Panic => pc = "returned" /\ result.kind \in {"Ok", "Err"}

\* try_cast_into panicked.
C9_Witness ==
    /\ op.name = "try_cast_into"
    /\ result = Panic
    /\ pc = "aborted"

\* C10: try_cast_from and try_cast_into make the eligibility test once and
\* first; after true, opt_cast_from once and on_err never; after false, on_err
\* once, on the source value, and opt_cast_from never.
C10_TestThenConvert ==
    IsTry =>
        /\ Len(calls) = 2
        /\ calls[1] = Call("can_cast_from", arg)
        /\ CountCalls("can_cast_from") = 1
        /\ can_cast_from(op.T, arg) =>
              calls[2] = Call("opt_cast_from", arg) /\ CountCalls("on_err") = 0
        /\ ~can_cast_from(op.T, arg) =>
              calls[2] = Call("on_err", arg) /\ CountCalls("opt_cast_from") = 0

\* try_cast_from tested, was refused, and called on_err.
C10_Witness ==
    /\ op.name = "try_cast_from"
    /\ calls = <<Call("can_cast_from", arg), Call("on_err", arg)>>
    /\ result.kind = "Err"

====
